---------------------------- MODULE Spec2Model ----------------------------
(***************************************************************************)
(* A model of openai_extract: the extraction pipeline extract.Run and the  *)
(* helpers it calls (archive, filters, utils).                             *)
(*                                                                         *)
(* Go strings and byte slices are TLA+ strings; TLC evaluates Len, SubSeq, *)
(* \o, Head and Tail on them.  The texts of the model are ASCII, where     *)
(* utils.BytesToLower and strings.ToLower agree.                           *)
(***************************************************************************)
EXTENDS Integers, Sequences, FiniteSets, TLC

(***************************************************************************)
(* The state of one call of extract.Run                                    *)
(***************************************************************************)

VARIABLES
    zipFile,              \* the archive at archiveFilePath
    searchPatterns,
    desiredContentTypes,
    desiredLanguages,
    pc,                   \* "start", "loop" (line 55) or "done" (returned)
    fileContentMap,
    conversations,
    compiled,
    idx,                  \* the position of the range loop in conversations
    matchedCount,
    usedFolderNames,
    dirs,                 \* the directories that exist under the output root
    files,                \* the files written: path -> bytes
    printed,              \* the lines given to utils.PrintLine
    ret,                  \* Run's result: "running", "nil" or the error text
    ioFaults,             \* how many I/O operations have failed
    log,                  \* per visited record, where its iteration ended
    call                  \* a call of one helper on its own: [fn, ...]

(***************************************************************************)
(* Strings                                                                 *)
(***************************************************************************)

\* The printable ASCII characters in code order: ' ' (32) to '_' (95), and
\* 'a' (97) to '~' (126).  A TLA+ string cannot hold the backquote (96); the
\* texts of the model write Tick for it.
AsciiLow == " !\"#$%&'()*+,-./0123456789:;<=>?@ABCDEFGHIJKLMNOPQRSTUVWXYZ[\\]^_"

AsciiHigh == "abcdefghijklmnopqrstuvwxyz{|}~"

Tick == "~"

UpperLetters == "ABCDEFGHIJKLMNOPQRSTUVWXYZ"

LowerLetters == "abcdefghijklmnopqrstuvwxyz"

Digits == "0123456789"

CharAt(s, i) == SubSeq(s, i, i)

CharsOf(s) == { CharAt(s, i) : i \in 1..Len(s) }

\* 1-based position of the one-character string c in s, 0 when absent.
IndexOfChar(s, c) ==
    IF \E i \in 1..Len(s) : CharAt(s, i) = c
    THEN CHOOSE i \in 1..Len(s) : CharAt(s, i) = c /\ \A j \in 1..(i - 1) : CharAt(s, j) # c
    ELSE 0

\* The byte value of each character: tab and newline, then the printable range.
OrdTable ==
    [c \in {"\t", "\n"} \cup CharsOf(AsciiLow) \cup CharsOf(AsciiHigh) |->
        IF c = "\t" THEN 9
        ELSE IF c = "\n" THEN 10
        ELSE IF IndexOfChar(AsciiLow, c) > 0 THEN 31 + IndexOfChar(AsciiLow, c)
        ELSE 96 + IndexOfChar(AsciiHigh, c)]

Ord(c) == OrdTable[c]

UpperSet == CharsOf(UpperLetters)

LowerSet == CharsOf(LowerLetters)

DigitSet == CharsOf(Digits)

LowerTable == [c \in UpperSet |-> CharAt(LowerLetters, IndexOfChar(UpperLetters, c))]

LowerChar(c) == IF c \in UpperSet THEN LowerTable[c] ELSE c

\* LowerChar applied to every character of s (the two halves in turn).
RECURSIVE MapLower(_)
MapLower(s) ==
    IF Len(s) <= 1 THEN LowerChar(s)
    ELSE MapLower(SubSeq(s, 1, Len(s) \div 2)) \o MapLower(SubSeq(s, Len(s) \div 2 + 1, Len(s)))

BytesToLower_Unchanged(src) == src

\* utils.BytesToLower: 'A'..'Z' are shifted by 32, every other byte is kept.
BytesToLower(src) == MapLower(src)

\* strings.ToLower on ASCII text.
ToLower(s) == MapLower(s)

HasPrefix(s, p) == Len(p) <= Len(s) /\ SubSeq(s, 1, Len(p)) = p

HasSuffix(s, p) == Len(p) <= Len(s) /\ SubSeq(s, Len(s) - Len(p) + 1, Len(s)) = p

\* Whether sub occurs in s starting at position i.
OccursAt(s, sub, i) == i >= 1 /\ i + Len(sub) - 1 <= Len(s) /\ SubSeq(s, i, i + Len(sub) - 1) = sub

\* strings.Contains
Contains(s, sub) == \E i \in 1..(Len(s) - Len(sub) + 1) : OccursAt(s, sub, i)

\* strings.ContainsAny
ContainsAny(s, chars) == \E i \in 1..Len(s) : IndexOfChar(chars, CharAt(s, i)) > 0

IsSpace(c) == c \in {" ", "\t", "\n"}

RECURSIVE TrimLeft(_)
TrimLeft(s) == IF s # "" /\ IsSpace(Head(s)) THEN TrimLeft(Tail(s)) ELSE s

RECURSIVE TrimRight(_)
TrimRight(s) ==
    IF s # "" /\ IsSpace(CharAt(s, Len(s))) THEN TrimRight(SubSeq(s, 1, Len(s) - 1)) ELSE s

\* strings.TrimSpace
TrimSpace(s) == TrimRight(TrimLeft(s))

\* utils.ToLowerTrim
ToLowerTrim(s) == ToLower(TrimSpace(s))

\* Byte-wise lexicographic order of Go strings (a < b).
RECURSIVE StrLess(_, _)
StrLess(a, b) ==
    IF b = "" THEN FALSE
    ELSE IF a = "" THEN TRUE
    ELSE IF Head(a) = Head(b) THEN StrLess(Tail(a), Tail(b))
    ELSE Ord(Head(a)) < Ord(Head(b))

\* sort.Strings: the strings of the finite set S as an ascending sequence.
RECURSIVE SortStrings(_)
SortStrings(S) ==
    IF S = {} THEN << >>
    ELSE LET m == CHOOSE x \in S : \A y \in S \ {x} : StrLess(x, y)
         IN  << m >> \o SortStrings(S \ {m})

\* strconv's decimal form of a non-negative integer (the %d verb).
Itoa(n) == ToString(n)

\* n in decimal, left-padded with zeros to two digits.
Pad2(n) == IF n < 10 THEN "0" \o ToString(n) ELSE ToString(n)

\* All orders in which the elements of the finite set S can be visited.
RECURSIVE Perms(_)
Perms(S) ==
    IF S = {} THEN { << >> }
    ELSE UNION { { << x >> \o p : p \in Perms(S \ {x}) } : x \in S }

(***************************************************************************)
(* JSON values and encoding/json                                           *)
(*                                                                         *)
(* A decoded JSON value (Go's any) is a record with a tag t and one slot   *)
(* per shape: n for a number (float64), s for a string, a for an array, o   *)
(* for an object (map[string]any): a function from its keys to values.  A  *)
(* number holds its whole part in n and, when it is not whole, the digits  *)
(* after its decimal point in s.  A conversationRecord is an object value, *)
(* or the null value for the nil map that a null array element decodes to. *)
(***************************************************************************)

NoFields == [k \in {} |-> 0]

JNull == [t |-> "null", n |-> 0, s |-> "", o |-> NoFields, a |-> << >>]

JNum(v) == [t |-> "num", n |-> v, s |-> "", o |-> NoFields, a |-> << >>]

\* The number whole.digits, for a whole part that is not negative.
JFrac(whole, digits) == [t |-> "num", n |-> whole, s |-> digits, o |-> NoFields, a |-> << >>]

JStr(v) == [t |-> "str", n |-> 0, s |-> v, o |-> NoFields, a |-> << >>]

JObj(f) == [t |-> "obj", n |-> 0, s |-> "", o |-> f, a |-> << >>]

JArr(items) == [t |-> "arr", n |-> 0, s |-> "", o |-> NoFields, a |-> items]

\* record[key] with its "exists" flag; a nil map has no key.
HasKey(record, key) == record.t = "obj" /\ key \in DOMAIN record.o

\* encoding/json's escaping of one character of a string (HTML escaping on).
EscapeChar(c) ==
    IF c = "\"" THEN "\\\""
    ELSE IF c = "\\" THEN "\\\\"
    ELSE IF c = "\n" THEN "\\n"
    ELSE IF c = "\t" THEN "\\t"
    ELSE IF c = "<" THEN "\\u003c"
    ELSE IF c = ">" THEN "\\u003e"
    ELSE IF c = "&" THEN "\\u0026"
    ELSE c

\* EscapeChar applied to every character of s (the two halves in turn).
RECURSIVE EscapeString(_)
EscapeString(s) ==
    IF Len(s) <= 1 THEN EscapeChar(s)
    ELSE EscapeString(SubSeq(s, 1, Len(s) \div 2))
             \o EscapeString(SubSeq(s, Len(s) \div 2 + 1, Len(s)))

Quote(s) == "\"" \o EscapeString(s) \o "\""

\* The strings of a sequence joined by sep (strings.Join).
RECURSIVE Join(_, _)
Join(items, sep) ==
    IF Len(items) = 0 THEN ""
    ELSE IF Len(items) = 1 THEN items[1]
    ELSE items[1] \o sep \o Join(Tail(items), sep)

\* json.Marshal of a decoded value: compact, object keys in sorted order.
RECURSIVE Marshal(_)
Marshal(v) ==
    IF v.t = "null" THEN "null"
    ELSE IF v.t = "num" THEN ToString(v.n) \o (IF v.s = "" THEN "" ELSE "." \o v.s)
    ELSE IF v.t = "str" THEN Quote(v.s)
    ELSE IF v.t = "arr" THEN "[" \o Join([i \in 1..Len(v.a) |-> Marshal(v.a[i])], ",") \o "]"
    ELSE LET keys == SortStrings(DOMAIN v.o)
         IN  "{" \o Join([i \in 1..Len(keys) |-> Quote(keys[i]) \o ":" \o Marshal(v.o[keys[i]])], ",") \o "}"

(***************************************************************************)
(* internal/utils/time.go                                                  *)
(*                                                                         *)
(* An int64 is four 16-bit limbs, least significant first, so that         *)
(* parseInt64Strict's arithmetic wraps at 2^64 as Go's does.  A time.Time  *)
(* is [sec, off]: Unix seconds and the zone offset its fields are shown    *)
(* in; time.Unix yields the local zone, taken to be UTC.  Seconds of 2^31  *)
(* and more are held as the limbs of the int64 in a third field, far,      *)
(* which is zero otherwise; no such instant is formatted in the model.     *)
(***************************************************************************)

I64Zero == << 0, 0, 0, 0 >>

\* v*10 + d in int64 arithmetic (the carry out of the top limb is dropped).
I64MulAdd(v, d) ==
    LET t1 == v[1] * 10 + d
        t2 == v[2] * 10 + (t1 \div 65536)
        t3 == v[3] * 10 + (t2 \div 65536)
        t4 == v[4] * 10 + (t3 \div 65536)
    IN  << t1 % 65536, t2 % 65536, t3 % 65536, t4 % 65536 >>

\* seconds > 0 for an int64: the sign bit is clear and the value is not zero.
I64Positive(v) == v[4] < 32768 /\ v # I64Zero

\* The value of a non-negative int64 below 2^31 as an integer.
I64ToInt(v) == v[1] + v[2] * 65536

I64Small(v) == v[3] = 0 /\ v[4] = 0 /\ v[2] < 32768

IsDigit(c) == c \in DigitSet

DigitVal(c) == IndexOfChar(Digits, c) - 1

IsDigits(s) == \A i \in 1..Len(s) : IsDigit(CharAt(s, i))

RECURSIVE ParseLoop(_, _)
ParseLoop(s, result) ==
    IF s = "" THEN [ok |-> TRUE, v |-> result]
    ELSE IF ~IsDigit(Head(s)) THEN [ok |-> FALSE, v |-> I64Zero]
    ELSE ParseLoop(Tail(s), I64MulAdd(result, DigitVal(Head(s))))

\* parseInt64Strict: [ok, v]; ok is err == nil.
parseInt64Strict(s) ==
    IF Len(s) = 0 THEN [ok |-> FALSE, v |-> I64Zero]
    ELSE ParseLoop(s, I64Zero)

\* The value of a short digit string.
RECURSIVE Atoi(_)
Atoi(s) == IF s = "" THEN 0 ELSE Atoi(SubSeq(s, 1, Len(s) - 1)) * 10 + DigitVal(CharAt(s, Len(s)))

IsLeap(y) == (y % 4 = 0 /\ y % 100 # 0) \/ y % 400 = 0

DaysIn(y, m) ==
    IF m = 2 THEN (IF IsLeap(y) THEN 29 ELSE 28)
    ELSE IF m \in {4, 6, 9, 11} THEN 30 ELSE 31

\* Days from 1970-01-01 to the civil date y-m-d (proleptic Gregorian).
DaysFromCivil(y, m, d) ==
    LET yy  == IF m <= 2 THEN y - 1 ELSE y
        era == yy \div 400
        yoe == yy - era * 400
        mp  == IF m > 2 THEN m - 3 ELSE m + 9
        doy == (153 * mp + 2) \div 5 + d - 1
        doe == yoe * 365 + (yoe \div 4) - (yoe \div 100) + doy
    IN  era * 146097 + doe - 719468

\* The civil date [y, m, d] of a day count from 1970-01-01.
CivilFromDays(days) ==
    LET z   == days + 719468
        era == z \div 146097
        doe == z - era * 146097
        yoe == (doe - (doe \div 1460) + (doe \div 36524) - (doe \div 146096)) \div 365
        doy == doe - (365 * yoe + (yoe \div 4) - (yoe \div 100))
        mp  == (5 * doy + 2) \div 153
        d   == doy - ((153 * mp + 2) \div 5) + 1
        m   == IF mp < 10 THEN mp + 3 ELSE mp - 9
    IN  [y |-> yoe + era * 400 + (IF m <= 2 THEN 1 ELSE 0), m |-> m, d |-> d]

\* time.Unix(seconds, 0)
Unix(seconds) == [sec |-> seconds, far |-> I64Zero, off |-> 0]

\* time.Parse(time.RFC3339, s) for date-times without fractional seconds:
\* "2006-01-02T15:04:05" followed by "Z" or by a numeric offset "+07:00".
ParseRFC3339(s) ==
    LET shape ==
            /\ Len(s) \in {20, 25}
            /\ CharAt(s, 5) = "-" /\ CharAt(s, 8) = "-" /\ CharAt(s, 11) = "T"
            /\ CharAt(s, 14) = ":" /\ CharAt(s, 17) = ":"
            /\ IsDigits(SubSeq(s, 1, 4)) /\ IsDigits(SubSeq(s, 6, 7))
            /\ IsDigits(SubSeq(s, 9, 10)) /\ IsDigits(SubSeq(s, 12, 13))
            /\ IsDigits(SubSeq(s, 15, 16)) /\ IsDigits(SubSeq(s, 18, 19))
            /\ IF Len(s) = 20 THEN CharAt(s, 20) = "Z"
               ELSE /\ CharAt(s, 20) \in {"+", "-"} /\ CharAt(s, 23) = ":"
                    /\ IsDigits(SubSeq(s, 21, 22)) /\ IsDigits(SubSeq(s, 24, 25))
        y  == Atoi(SubSeq(s, 1, 4))
        m  == Atoi(SubSeq(s, 6, 7))
        d  == Atoi(SubSeq(s, 9, 10))
        h  == Atoi(SubSeq(s, 12, 13))
        mi == Atoi(SubSeq(s, 15, 16))
        se == Atoi(SubSeq(s, 18, 19))
        zh == Atoi(SubSeq(s, 21, 22))
        zm == Atoi(SubSeq(s, 24, 25))
        off == IF Len(s) = 20 THEN 0
               ELSE (IF CharAt(s, 20) = "-" THEN -1 ELSE 1) * (zh * 3600 + zm * 60)
    IN  IF shape /\ m \in 1..12 /\ d >= 1 /\ d <= DaysIn(y, m) /\ h <= 23 /\ mi <= 59 /\ se <= 59
           /\ (Len(s) = 25 => zh <= 23 /\ zm <= 59)
        THEN [ok |-> TRUE,
              t |-> [sec |-> DaysFromCivil(y, m, d) * 86400 + h * 3600 + mi * 60 + se - off,
                     far |-> I64Zero, off |-> off]]
        ELSE [ok |-> FALSE, t |-> Unix(0)]

candidateKeys == << "create_time", "createTime", "create-time", "start_time" >>

\* One pass of ExtractCreateTime's loop body for the value under a key:
\* [ok, t], ok when the value converts and the function returns t.
\* int64(typed) is the whole part of the number.
ConvertTime(rawValue) ==
    IF rawValue.t = "num"
    THEN (IF rawValue.n > 0 THEN [ok |-> TRUE, t |-> Unix(rawValue.n)]
          ELSE [ok |-> FALSE, t |-> Unix(0)])
    ELSE IF rawValue.t = "str"
    THEN (IF ParseRFC3339(rawValue.s).ok THEN ParseRFC3339(rawValue.s)
          ELSE IF parseInt64Strict(rawValue.s).ok /\ I64Positive(parseInt64Strict(rawValue.s).v)
               THEN [ok |-> TRUE,
                     t |-> IF I64Small(parseInt64Strict(rawValue.s).v)
                           THEN Unix(I64ToInt(parseInt64Strict(rawValue.s).v))
                           ELSE [sec |-> 0, far |-> parseInt64Strict(rawValue.s).v, off |-> 0]]
               ELSE [ok |-> FALSE, t |-> Unix(0)])
    ELSE [ok |-> FALSE, t |-> Unix(0)]

ProbeKeys_StopsAtPresentKey(record, i, now) ==
    IF \E k \in i..Len(candidateKeys) : HasKey(record, candidateKeys[k])
    THEN LET first == CHOOSE k \in i..Len(candidateKeys) :
                         /\ HasKey(record, candidateKeys[k])
                         /\ \A j \in i..(k - 1) : ~HasKey(record, candidateKeys[j])
         IN  IF ConvertTime(record.o[candidateKeys[first]]).ok
             THEN ConvertTime(record.o[candidateKeys[first]]).t
             ELSE now
    ELSE now

RECURSIVE ProbeKeys(_, _, _)
ProbeKeys(record, i, now) ==
    IF i > Len(candidateKeys) THEN now
    ELSE IF HasKey(record, candidateKeys[i]) /\ ConvertTime(record.o[candidateKeys[i]]).ok
         THEN ConvertTime(record.o[candidateKeys[i]]).t
         ELSE ProbeKeys(record, i + 1, now)

\* ExtractCreateTime; now is what time.Now() returns if it is reached.
ExtractCreateTime(record, now) == ProbeKeys(record, 1, now)

\* FormatDatestamp: t.Format("010206-1504"), MMDDYY-HHMM in t's zone.
FormatDatestamp(t) ==
    LET local == t.sec + t.off
        days  == local \div 86400
        rem   == local % 86400
        c     == CivilFromDays(days)
    IN  Pad2(c.m) \o Pad2(c.d) \o Pad2(c.y % 100) \o "-" \o Pad2(rem \div 3600) \o Pad2((rem % 3600) \div 60)

(***************************************************************************)
(* Patterns: utils.CompileUserPattern and the regexp values it returns     *)
(*                                                                         *)
(* A compiled regexp is [ok, fold, alts].  The model covers the fragment   *)
(* of Go's syntax that the patterns of the model are written in: an        *)
(* optional leading flag group (?i), alternatives separated by |, and in   *)
(* each alternative literal characters, escaped punctuation, the dot, and  *)
(* the anchors ^ and $.  Of the remaining metacharacters it knows only     *)
(* when they make regexp.Compile fail.                                     *)
(***************************************************************************)

RegexChars == "[]()|+\\^$"

\* looksLikeRegex
looksLikeRegex(s) ==
    \/ HasPrefix(s, "(?")
    \/ ContainsAny(s, RegexChars)
    \/ Contains(s, "?=") \/ Contains(s, "?<=") \/ Contains(s, "?!")

MetaChars == "\\.+*?()|[]{}^$"

\* regexp.QuoteMeta
RECURSIVE QuoteMeta(_)
QuoteMeta(s) ==
    IF s = "" THEN ""
    ELSE (IF IndexOfChar(MetaChars, Head(s)) > 0 THEN "\\" ELSE "") \o Head(s) \o QuoteMeta(Tail(s))

\* The alternatives of a pattern body: it is cut at every unescaped |.
RECURSIVE SplitAlt(_, _)
SplitAlt(body, cur) ==
    IF body = "" THEN << cur >>
    ELSE IF Head(body) = "\\" /\ Len(body) >= 2
         THEN SplitAlt(SubSeq(body, 3, Len(body)), cur \o SubSeq(body, 1, 2))
    ELSE IF Head(body) = "|" THEN << cur >> \o SplitAlt(Tail(body), "")
    ELSE SplitAlt(Tail(body), cur \o Head(body))

\* The atoms of one alternative, in order.
RECURSIVE ParseAtoms(_)
ParseAtoms(alt) ==
    IF alt = "" THEN << >>
    ELSE IF Head(alt) = "\\" /\ Len(alt) >= 2
         THEN << [k |-> "lit", c |-> CharAt(alt, 2)] >> \o ParseAtoms(SubSeq(alt, 3, Len(alt)))
    ELSE IF Head(alt) = "." THEN << [k |-> "any", c |-> ""] >> \o ParseAtoms(Tail(alt))
    ELSE IF Head(alt) = "^" THEN << [k |-> "bol", c |-> ""] >> \o ParseAtoms(Tail(alt))
    ELSE IF Head(alt) = "$" THEN << [k |-> "eol", c |-> ""] >> \o ParseAtoms(Tail(alt))
    ELSE << [k |-> "lit", c |-> Head(alt)] >> \o ParseAtoms(Tail(alt))

\* The pattern body with its escape pairs removed: what is left of a
\* metacharacter here is unescaped.
RECURSIVE Unescaped(_)
Unescaped(body) ==
    IF body = "" THEN ""
    ELSE IF Head(body) = "\\" THEN (IF Len(body) >= 2 THEN Unescaped(SubSeq(body, 3, Len(body))) ELSE "\\")
    ELSE Head(body) \o Unescaped(Tail(body))

\* Whether regexp.Compile rejects the body: a trailing backslash, a group or
\* class that is opened and not closed or closed and not opened, or a
\* repetition with nothing to repeat.
SyntaxError(body) ==
    LET u == Unescaped(body)
        count(c) == Cardinality({ i \in 1..Len(u) : CharAt(u, i) = c })
    IN  \/ Contains(u, "\\")
        \/ count("(") # count(")")
        \/ (count("[") > 0 /\ count("]") = 0)
        \/ (u # "" /\ Head(u) \in {"+", "*", "?"})

\* regexp.Compile
RegexpCompile(src) ==
    LET fold == HasPrefix(src, "(?i)")
        body == IF fold THEN SubSeq(src, 5, Len(src)) ELSE src
        alts == SplitAlt(body, "")
    IN  IF SyntaxError(body) THEN [ok |-> FALSE, fold |-> FALSE, alts |-> << >>]
        ELSE [ok |-> TRUE, fold |-> fold, alts |-> [i \in 1..Len(alts) |-> ParseAtoms(alts[i])]]

\* CompileUserPattern: [ok, ...]; ok is err == nil.
CompileUserPattern(user) ==
    IF looksLikeRegex(user) THEN RegexpCompile(user)
    ELSE RegexpCompile("(?i)" \o QuoteMeta(user))

\* Whether atoms match the text from position pos on.
RECURSIVE MatchHere(_, _, _, _)
MatchHere(atoms, fold, text, pos) ==
    IF Len(atoms) = 0 THEN TRUE
    ELSE LET a == atoms[1]
         IN  IF a.k = "bol" THEN pos = 1 /\ MatchHere(Tail(atoms), fold, text, pos)
             ELSE IF a.k = "eol" THEN pos = Len(text) + 1 /\ MatchHere(Tail(atoms), fold, text, pos)
             ELSE /\ pos <= Len(text)
                  /\ IF a.k = "any" THEN CharAt(text, pos) # "\n"
                     ELSE IF fold THEN LowerChar(CharAt(text, pos)) = LowerChar(a.c)
                     ELSE CharAt(text, pos) = a.c
                  /\ MatchHere(Tail(atoms), fold, text, pos + 1)

\* (*regexp.Regexp).Match: some alternative matches somewhere in the text.
ReMatch(re, text) ==
    \E i \in 1..Len(re.alts) : \E pos \in 1..(Len(text) + 1) : MatchHere(re.alts[i], re.fold, text, pos)

(***************************************************************************)
(* internal/filters/filters.go                                             *)
(***************************************************************************)

\* The first position at or after i that holds no white space (\s*).
RECURSIVE SkipSpace(_, _)
SkipSpace(text, i) ==
    IF i <= Len(text) /\ IsSpace(CharAt(text, i)) THEN SkipSpace(text, i + 1) ELSE i

\* The first position at or after i that holds a double quote, 0 if none.
NextQuote(text, i) ==
    IF \E j \in i..Len(text) : CharAt(text, j) = "\""
    THEN CHOOSE j \in i..Len(text) :
            CharAt(text, j) = "\"" /\ \A k \in i..(j - 1) : CharAt(text, k) # "\""
    ELSE 0

\* The group captured by the regexp  "<field>"\s*:\s*"([^"]+)"  when it
\* matches at position i: [ok, v].
FieldMatchAt(text, field, i) ==
    LET key   == "\"" \o field \o "\""
        colon == SkipSpace(text, i + Len(key))
        open  == SkipSpace(text, colon + 1)
        close == NextQuote(text, open + 1)
    IN  IF /\ OccursAt(text, key, i)
           /\ colon <= Len(text) /\ CharAt(text, colon) = ":"
           /\ open <= Len(text) /\ CharAt(text, open) = "\""
           /\ close > open + 1
        THEN [ok |-> TRUE, v |-> SubSeq(text, open + 1, close - 1)]
        ELSE [ok |-> FALSE, v |-> ""]

\* FindAllSubmatch of that regexp: the captured groups.  Two matches cannot
\* overlap in the output of json.Marshal, so every match position counts.
FieldValues(text, field) ==
    { FieldMatchAt(text, field, i).v : i \in { j \in 1..Len(text) : FieldMatchAt(text, field, j).ok } }

\* EnumerateContentTypes: reContentType and reTypeField, values lowercased.
EnumerateContentTypes(conversationJSON) ==
    { ToLower(v) : v \in FieldValues(conversationJSON, "content_type") }
        \cup { ToLower(v) : v \in FieldValues(conversationJSON, "type") }

NormalizeLanguageName_SwitchOnName(name) ==
    LET n == ToLower(TrimSpace(name))
    IN  IF name \in {"js", "node", "nodejs", "javascript"} THEN "javascript"
        ELSE IF name = "golang" THEN "go"
        ELSE IF name \in {"sh", "bash", "zsh", "shell"} THEN "shell"
        ELSE IF name \in {"py", "python3"} THEN "python"
        ELSE IF name \in {"ts", "typescript"} THEN "typescript"
        ELSE IF name \in {"c++", "cpp"} THEN "cpp"
        ELSE IF name = "c#" THEN "csharp"
        ELSE n

\* NormalizeLanguageName
NormalizeLanguageName(name) ==
    LET n == ToLower(TrimSpace(name))
    IN  IF n \in {"js", "node", "nodejs", "javascript"} THEN "javascript"
        ELSE IF n = "golang" THEN "go"
        ELSE IF n \in {"sh", "bash", "zsh", "shell"} THEN "shell"
        ELSE IF n \in {"py", "python3"} THEN "python"
        ELSE IF n \in {"ts", "typescript"} THEN "typescript"
        ELSE IF n \in {"c++", "cpp"} THEN "cpp"
        ELSE IF n = "c#" THEN "csharp"
        ELSE n

\* The class [A-Za-z0-9_+-] of reCodeFenceLang.
IsFenceLangChar(c) ==
    c \in UpperSet \/ c \in LowerSet \/ IsDigit(c) \/ c \in {"_", "+", "-"}

\* The end of the longest run of the class that starts at position i.
FenceRunEnd(text, i) ==
    CHOOSE e \in (i - 1)..Len(text) :
        /\ \A k \in i..e : IsFenceLangChar(CharAt(text, k))
        /\ (e = Len(text) \/ ~IsFenceLangChar(CharAt(text, e + 1)))

\* The groups captured by reCodeFenceLang: three backquotes and the run of
\* the class that follows them.
FenceLangs(text) ==
    { SubSeq(text, i + 3, FenceRunEnd(text, i + 3)) :
        i \in { j \in 1..Len(text) :
                  OccursAt(text, Tick \o Tick \o Tick, j) /\ FenceRunEnd(text, j + 3) >= j + 3 } }

\* EnumerateLanguages
EnumerateLanguages(conversationJSON) ==
    { NormalizeLanguageName(v) : v \in FieldValues(conversationJSON, "language") }
        \cup { NormalizeLanguageName(v) : v \in FenceLangs(conversationJSON) }

\* The normalizer functions Run hands to HasAllDesired, by name.
ApplyNormalizer(normalizer, value) ==
    IF normalizer = "ToLowerTrim" THEN ToLowerTrim(value) ELSE NormalizeLanguageName(value)

HasAllDesired_AnyDesired(found, desired, normalizer) ==
    \/ Len(desired) = 0
    \/ \E i \in 1..Len(desired) : ApplyNormalizer(normalizer, desired[i]) \in found

HasAllDesired_EmptyRejects(found, desired, normalizer) ==
    /\ Len(desired) # 0
    /\ \A i \in 1..Len(desired) : ApplyNormalizer(normalizer, desired[i]) \in found

\* HasAllDesired
HasAllDesired(found, desired, normalizer) ==
    IF Len(desired) = 0 THEN TRUE
    ELSE \A i \in 1..Len(desired) : ApplyNormalizer(normalizer, desired[i]) \in found

\* filepath.Base on slash-separated paths.
RECURSIVE Base(_)
Base(path) ==
    IF path = "" THEN "."
    ELSE IF CharAt(path, Len(path)) = "/"
         THEN (IF Len(path) = 1 THEN "/" ELSE Base(SubSeq(path, 1, Len(path) - 1)))
    ELSE IF \E i \in 1..Len(path) : CharAt(path, i) = "/"
         THEN LET last == CHOOSE i \in 1..Len(path) :
                            CharAt(path, i) = "/" /\ \A j \in (i + 1)..Len(path) : CharAt(path, j) # "/"
              IN  SubSeq(path, last + 1, Len(path))
    ELSE path

\* The first loop of CollectLinkedFiles: the keys kept in archiveFiles.
ArchiveFiles(contentMap) ==
    { key \in DOMAIN contentMap :
        HasPrefix(ToLower(key), "files/") /\ ~HasSuffix(ToLower(key), "/") }

CollectLinkedFiles_FullPath(conversationJSON, contentMap) ==
    LET found == { archivePath \in ArchiveFiles(contentMap) :
                     Contains(ToLower(conversationJSON), ToLower(archivePath)) }
    IN  [archivePath \in found |-> contentMap[archivePath]]

\* CollectLinkedFiles: the map found.
CollectLinkedFiles(conversationJSON, contentMap) ==
    LET conversationStringLower == ToLower(conversationJSON)
        found == { archivePath \in ArchiveFiles(contentMap) :
                     /\ ToLower(Base(archivePath)) # ""
                     /\ Contains(conversationStringLower, ToLower(Base(archivePath))) }
    IN  [archivePath \in found |-> contentMap[archivePath]]

\* strconv.Quote as the %q verb applies it to the texts of the model.
GoQuote(s) == Quote(s)

\* BuildNoMatchError: the error's message.
BuildNoMatchError(patternCSV, contentTypes, languages) ==
    LET ct   == Join(contentTypes, ",")
        lang == Join(languages, ",")
        head == "no conversations matched patterns [" \o patternCSV \o "]"
    IN  IF ct # "" /\ lang # ""
        THEN head \o " with content type(s) " \o GoQuote(ct) \o " and language(s) " \o GoQuote(lang)
        ELSE IF ct # "" THEN head \o " with content type(s) " \o GoQuote(ct)
        ELSE IF lang # "" THEN head \o " with language(s) " \o GoQuote(lang)
        ELSE head

\* utils.StringsJoinComma
StringsJoinComma(items) == Join(items, ",")

\* depth levels of the two-space indent of json.MarshalIndent(v, "", "  ").
RECURSIVE Indent(_)
Indent(depth) == IF depth = 0 THEN "" ELSE "  " \o Indent(depth - 1)

\* json.MarshalIndent(v, "", "  ") of a decoded value nested at depth.
RECURSIVE MarshalIndent(_, _)
MarshalIndent(v, depth) ==
    IF v.t = "arr"
    THEN (IF Len(v.a) = 0 THEN "[]"
          ELSE "[\n" \o Join([i \in 1..Len(v.a) |-> Indent(depth + 1) \o MarshalIndent(v.a[i], depth + 1)], ",\n")
                   \o "\n" \o Indent(depth) \o "]")
    ELSE IF v.t = "obj"
    THEN (IF DOMAIN v.o = {} THEN "{}"
          ELSE LET keys == SortStrings(DOMAIN v.o)
               IN  "{\n" \o Join([i \in 1..Len(keys) |->
                                    Indent(depth + 1) \o Quote(keys[i]) \o ": "
                                        \o MarshalIndent(v.o[keys[i]], depth + 1)], ",\n")
                         \o "\n" \o Indent(depth) \o "}")
    ELSE Marshal(v)

(***************************************************************************)
(* internal/archive/zipmap.go                                              *)
(*                                                                         *)
(* The bytes of an archive entry are [raw, valid, doc]: the text, whether  *)
(* it is well-formed JSON, and the value it then decodes to.  A zip file   *)
(* is [ok, entries]: whether it opens and all its entries can be read, and *)
(* its entries [name, content] in archive order.                           *)
(***************************************************************************)

RawBytes(text) == [raw |-> text, valid |-> FALSE, doc |-> JNull]

JSONBytes(v) == [raw |-> Marshal(v), valid |-> TRUE, doc |-> v]

\* LoadZipFileMap: [ok, m]; a later entry of the same name replaces an earlier.
LoadZipFileMap(zip) ==
    IF ~zip.ok THEN [ok |-> FALSE, m |-> NoFields]
    ELSE LET names == { zip.entries[i].name : i \in 1..Len(zip.entries) }
             last(nm) == CHOOSE i \in 1..Len(zip.entries) :
                            /\ zip.entries[i].name = nm
                            /\ \A j \in (i + 1)..Len(zip.entries) : zip.entries[j].name # nm
         IN  [ok |-> TRUE, m |-> [nm \in names |-> zip.entries[last(nm)].content]]

\* The keys FindConversationsJSON appends to candidateKeys.
IsConversationsKey(key) ==
    ToLower(key) = "conversations.json" \/ HasSuffix(ToLower(key), "/conversations.json")

ConversationsKeys(contentMap) == { key \in DOMAIN contentMap : IsConversationsKey(key) }

\* json.Unmarshal(raw, &records) for records []conversationRecord: [err, records].
\* JSON null leaves the slice nil; in an array an object becomes a record and
\* null a nil record, an element of another shape is a type error.
UnmarshalRecords(content) ==
    IF ~content.valid THEN [err |-> "syntax", records |-> << >>]
    ELSE IF content.doc.t = "null" THEN [err |-> "", records |-> << >>]
    ELSE IF content.doc.t # "arr" THEN [err |-> "type", records |-> << >>]
    ELSE IF \E i \in 1..Len(content.doc.a) : content.doc.a[i].t \notin {"obj", "null"}
         THEN [err |-> "type", records |-> << >>]
    ELSE [err |-> "", records |-> content.doc.a]

\* sort.Strings(candidateKeys); candidateKeys[0], for a non-empty candidateKeys.
ChooseCandidate(appended) == SortStrings({ appended[i] : i \in 1..Len(appended) })[1]

\* FindConversationsJSON: [err, records, key].  appended is candidateKeys as
\* the range over the map has filled it, in the order the map was visited.
FindConversationsJSON(contentMap, appended) ==
    IF Len(appended) = 0
    THEN [err |-> "conversations.json not found in archive", records |-> << >>, key |-> ""]
    ELSE LET key == ChooseCandidate(appended)
             got == UnmarshalRecords(contentMap[key])
         IN  IF got.err # ""
             THEN [err |-> "parse conversations.json: " \o got.err, records |-> << >>, key |-> key]
             ELSE [err |-> "", records |-> got.records, key |-> key]

(***************************************************************************)
(* extract.Run: the filters of one iteration                               *)
(***************************************************************************)

AllPatternsMatch_AnyMatches(regexps, lower) ==
    Len(regexps) = 0 \/ \E i \in 1..Len(regexps) : ReMatch(regexps[i], lower)

\* Run, lines 63 to 69: allMatch after the loop over compiled.
AllPatternsMatch(regexps, lower) ==
    \A i \in 1..Len(regexps) : ReMatch(regexps[i], lower)

\* Run, lines 61 to 82: the filter that makes the iteration continue, or
\* "pass" when the record reaches line 84.
FilterStage(regexps, serialized, contentTypes, languages) ==
    IF ~AllPatternsMatch(regexps, BytesToLower(serialized)) THEN "pattern"
    ELSE IF ~HasAllDesired(EnumerateContentTypes(serialized), contentTypes, "ToLowerTrim")
    THEN "ctype"
    ELSE IF ~HasAllDesired(EnumerateLanguages(serialized), languages, "NormalizeLanguageName")
    THEN "lang"
    ELSE "pass"

(***************************************************************************)
(* The inputs of the model                                                 *)
(***************************************************************************)

\* The longest conversation list of an archive.
MaxRecords == 3

\* The most I/O operations that fail in one run.
MaxIOFaults == 1

RecA ==
    JObj("create_time" :> JNum(1700000000)
         @@ "mapping" :> JObj("content_type" :> JStr("code") @@ "language" :> JStr("python")))

RecB ==
    JObj("create_time" :> JStr("2023-11-14T22:13:50Z") @@ "content_type" :> JStr("Code")
         @@ "title" :> JStr("see IMG1.png " \o Tick \o Tick \o Tick \o "js") @@ "type" :> JStr("text"))

RecC == JObj("title" :> JStr("notes.txt mapping"))

RecD ==
    JObj("createTime" :> JStr("1700000100") @@ "content_type" :> JStr("code")
         @@ "language" :> JStr("Golang"))

RecordPool == {RecA, RecB, RecC, RecD}

RecordLists == UNION { [1..n -> RecordPool] : n \in 0..MaxRecords }

\* What time.Now() can return: an instant in RecA's minute and a later one.
Clock == {Unix(1700000010), Unix(1700000400)}

Entry(name, content) == [name |-> name, content |-> content]

Attachments ==
    << Entry("files/", RawBytes("")), Entry("files/img1.png", RawBytes("PNG-A")),
       Entry("files/sub/img1.png", RawBytes("PNG-B")), Entry("files/notes.txt", RawBytes("NOTES")),
       Entry("other/img1.png", RawBytes("PNG-C")) >>

ZipOf(doc) == [ok |-> TRUE, entries |-> << Entry("conversations.json", doc) >> \o Attachments]

\* Archives that fail in setup or hold no record: one that cannot be read,
\* one without the document, and documents that are malformed, null, or not
\* the one chosen among two candidates.
OddZips ==
    { [ok |-> FALSE, entries |-> << >>],
      [ok |-> TRUE, entries |-> Attachments],
      ZipOf(RawBytes("[{")),
      ZipOf(JSONBytes(JNull)),
      ZipOf(JSONBytes(JArr(<< JNum(1) >>))),
      [ok |-> TRUE, entries |-> << Entry("conversations.json", JSONBytes(JArr(<< RecC >>))),
                                   Entry("Export/Conversations.json", JSONBytes(JArr(<< RecA >>))) >>
                                    \o Attachments] }

Zips == { ZipOf(JSONBytes(JArr(recs))) : recs \in RecordLists } \cup OddZips

Config(patterns, contentTypes, languages) ==
    [patterns |-> patterns, contentTypes |-> contentTypes, languages |-> languages]

\* The filter arguments of Run: searchPatterns, desiredContentTypes, desiredLanguages.
Configs ==
    { Config(<< >>, << >>, << >>),
      Config(<< "mapping" >>, << "code" >>, << "python" >>),
      Config(<< "nonexistent" >>, << >>, << >>),
      Config(<< "create", "IMG1" >>, << >>, << >>),
      Config(<< "title|mapping" >>, << " Code ", "text" >>, << >>),
      Config(<< "mapping", "a(" >>, << >>, << >>),
      Config(<< "time" >>, << >>, << "JS" >>),
      Config(<< "time" >>, << "code" >>, << "go", "python" >>),
      Config(<< "(?i)MAPPING" >>, << >>, << " py " >>) }

(***************************************************************************)
(* Tables of the helpers' results on the inputs of the model.  A Cached    *)
(* operator returns what the helper it names returns; on the inputs above  *)
(* it reads the result from a table that is computed once.                 *)
(***************************************************************************)

PoolTexts == { Marshal(r) : r \in RecordPool }

MarshalTable == [r \in RecordPool |-> Marshal(r)]

CachedMarshal(v) == IF v \in RecordPool THEN MarshalTable[v] ELSE Marshal(v)

MarshalIndentTable == [r \in RecordPool |-> MarshalIndent(r, 0)]

CachedMarshalIndent(v) == IF v \in RecordPool THEN MarshalIndentTable[v] ELSE MarshalIndent(v, 0)

PatternPool == UNION { { c.patterns[i] : i \in 1..Len(c.patterns) } : c \in Configs }

CompileTable == [user \in PatternPool |-> CompileUserPattern(user)]

CachedCompileUserPattern(user) ==
    IF user \in PatternPool THEN CompileTable[user] ELSE CompileUserPattern(user)

\* The filter arguments as the loop holds them: compiled and the two lists.
FilterKey(c) ==
    << [i \in 1..Len(c.patterns) |-> CompileTable[c.patterns[i]]], c.contentTypes, c.languages >>

FilterKeys == { FilterKey(c) : c \in { d \in Configs : \A i \in 1..Len(d.patterns) : CompileTable[d.patterns[i]].ok } }

FilterStageTable ==
    [k \in FilterKeys |-> [t \in PoolTexts |-> FilterStage(k[1], t, k[2], k[3])]]

CachedFilterStage(regexps, serialized, contentTypes, languages) ==
    IF << regexps, contentTypes, languages >> \in FilterKeys /\ serialized \in PoolTexts
    THEN FilterStageTable[<< regexps, contentTypes, languages >>][serialized]
    ELSE FilterStage(regexps, serialized, contentTypes, languages)

BaseFolderTable ==
    [r \in RecordPool |-> [now \in Clock |-> FormatDatestamp(ExtractCreateTime(r, now))]]

CachedBaseFolder(record, now) ==
    IF record \in RecordPool /\ now \in Clock THEN BaseFolderTable[record][now]
    ELSE FormatDatestamp(ExtractCreateTime(record, now))

KeySets == { DOMAIN LoadZipFileMap(zip).m : zip \in OddZips \cup {ZipOf(RawBytes(""))} }

\* What CollectLinkedFiles links depends on the keys of the map, not on the bytes.
KeysOnly(keys) == [k \in keys |-> RawBytes("")]

LinkedTable ==
    [t \in PoolTexts |-> [keys \in KeySets |-> DOMAIN CollectLinkedFiles(t, KeysOnly(keys))]]

CachedCollectLinkedFiles(conversationJSON, contentMap) ==
    IF conversationJSON \in PoolTexts /\ DOMAIN contentMap \in KeySets
    THEN [archivePath \in LinkedTable[conversationJSON][DOMAIN contentMap] |-> contentMap[archivePath]]
    ELSE CollectLinkedFiles(conversationJSON, contentMap)

ConversationsKeysTable == [keys \in KeySets |-> ConversationsKeys(KeysOnly(keys))]

CachedConversationsKeys(contentMap) ==
    IF DOMAIN contentMap \in KeySets THEN ConversationsKeysTable[DOMAIN contentMap]
    ELSE ConversationsKeys(contentMap)

(***************************************************************************)
(* extract.Run                                                             *)
(***************************************************************************)

runVars ==
    << zipFile, searchPatterns, desiredContentTypes, desiredLanguages, pc, fileContentMap,
       conversations, compiled, idx, matchedCount, usedFolderNames, dirs, files, printed,
       ret, ioFaults, log >>

vars == << runVars, call >>

NoCall == [fn |-> "none"]

\* filepath.Abs(outputRoot)
absoluteOutputRoot == "/out"

\* filepath.Join of a directory and a name
PathJoin(dir, name) == dir \o "/" \o name

\* usedFolderNames[baseFolder], zero for a key the map does not hold.
UsedCount(used, baseFolder) == IF baseFolder \in DOMAIN used THEN used[baseFolder] ELSE 0

MapPut(m, key, value) == (key :> value) @@ m

InitRun(zip, config) ==
    /\ zipFile = zip
    /\ searchPatterns = config.patterns
    /\ desiredContentTypes = config.contentTypes
    /\ desiredLanguages = config.languages
    /\ pc = "start"
    /\ fileContentMap = NoFields
    /\ conversations = << >>
    /\ compiled = << >>
    /\ idx = 1
    /\ matchedCount = 0
    /\ usedFolderNames = NoFields
    /\ dirs = {}
    /\ files = NoFields
    /\ printed = << >>
    /\ ret = "running"
    /\ ioFaults = 0
    /\ log = << >>

Init ==
    /\ \E zip \in Zips, config \in Configs : InitRun(zip, config)
    /\ call = NoCall

\* Whether one more I/O operation may fail.
MayFail == IF ioFaults < MaxIOFaults THEN BOOLEAN ELSE {FALSE}

\* Run returns err before the loop.
Abort(err, faults, made) ==
    /\ pc' = "done"
    /\ ret' = err
    /\ ioFaults' = ioFaults + faults
    /\ dirs' = dirs \cup made
    /\ UNCHANGED << zipFile, searchPatterns, desiredContentTypes, desiredLanguages, fileContentMap,
                    conversations, compiled, idx, matchedCount, usedFolderNames, files, printed,
                    log, call >>

FirstBadPattern_FirstOnly(patterns) ==
    IF Len(patterns) > 0 /\ ~CachedCompileUserPattern(patterns[1]).ok THEN 1 ELSE 0

\* The index of the first pattern that does not compile, 0 if all do.
FirstBadPattern(patterns) ==
    IF \E i \in 1..Len(patterns) : ~CachedCompileUserPattern(patterns[i]).ok
    THEN CHOOSE i \in 1..Len(patterns) :
            /\ ~CachedCompileUserPattern(patterns[i]).ok
            /\ \A j \in 1..(i - 1) : CachedCompileUserPattern(patterns[j]).ok
    ELSE 0

\* Run, lines 19 to 53: the output root, the archive, the document, the patterns.
Setup ==
    /\ pc = "start"
    /\ \E rootFails \in MayFail :
         LET loaded == LoadZipFileMap(zipFile)
             bad    == FirstBadPattern(searchPatterns)
         IN  IF rootFails
             THEN Abort("create output folder " \o GoQuote(absoluteOutputRoot), 1, {})
             ELSE IF ~loaded.ok
             THEN Abort("open zip", 0, {absoluteOutputRoot})
             ELSE \E appended \in Perms(CachedConversationsKeys(loaded.m)) :
                    LET found == FindConversationsJSON(loaded.m, appended)
                    IN  IF found.err # ""
                        THEN Abort(found.err, 0, {absoluteOutputRoot})
                        ELSE IF bad # 0
                        THEN Abort("invalid pattern " \o GoQuote(searchPatterns[bad]), 0,
                                   {absoluteOutputRoot})
                        ELSE /\ pc' = "loop"
                             /\ fileContentMap' = loaded.m
                             /\ conversations' = found.records
                             /\ compiled' = [i \in 1..Len(searchPatterns) |->
                                                CachedCompileUserPattern(searchPatterns[i])]
                             /\ dirs' = dirs \cup {absoluteOutputRoot}
                             /\ UNCHANGED << zipFile, searchPatterns, desiredContentTypes,
                                             desiredLanguages, idx, matchedCount, usedFolderNames,
                                             files, printed, ret, ioFaults, log, call >>

AssignFolder_SuffixFromCount(used, baseFolder) ==
    IF UsedCount(used, baseFolder) > 0
    THEN [used |-> MapPut(used, baseFolder, UsedCount(used, baseFolder) + 1),
          name |-> baseFolder \o "_" \o Itoa(UsedCount(used, baseFolder))]
    ELSE [used |-> MapPut(used, baseFolder, 1), name |-> baseFolder]

AssignFolder_CountNotAdvanced(used, baseFolder) ==
    IF UsedCount(used, baseFolder) > 0
    THEN [used |-> used, name |-> baseFolder \o "_" \o Itoa(UsedCount(used, baseFolder) + 1)]
    ELSE [used |-> MapPut(used, baseFolder, 1), name |-> baseFolder]

\* Run, lines 87 to 92: [used, name], the counter map and baseFolder afterwards.
AssignFolder(used, baseFolder) ==
    IF UsedCount(used, baseFolder) > 0
    THEN [used |-> MapPut(used, baseFolder, UsedCount(used, baseFolder) + 1),
          name |-> baseFolder \o "_" \o Itoa(UsedCount(used, baseFolder) + 1)]
    ELSE [used |-> MapPut(used, baseFolder, 1), name |-> baseFolder]

\* Run, lines 112 to 117: the files after the range over linked has visited
\* its keys in this order; the writes of the keys in failing fail.
RECURSIVE WriteLinked(_, _, _, _, _)
WriteLinked(written, order, failing, linked, filesFolder) ==
    IF Len(order) = 0 THEN written
    ELSE WriteLinked(IF order[1] \in failing THEN written
                     ELSE MapPut(written, PathJoin(filesFolder, Base(order[1])), linked[order[1]].raw),
                     Tail(order), failing, linked, filesFolder)

EndIteration_FailureReturns(stage, baseFolder, name, used, faults, dirsAfter, filesAfter, counted) ==
    /\ idx' = IF stage \in {"mkdir", "write"} THEN Len(conversations) + 1 ELSE idx + 1
    /\ log' = Append(log, [rec |-> idx, stage |-> stage, base |-> baseFolder, name |-> name])
    /\ usedFolderNames' = used
    /\ ioFaults' = ioFaults + faults
    /\ dirs' = dirsAfter
    /\ files' = filesAfter
    /\ matchedCount' = IF counted THEN matchedCount + 1 ELSE matchedCount
    /\ printed' = IF counted
                  THEN Append(printed, PathJoin(absoluteOutputRoot, name) \o "/")
                  ELSE printed
    /\ UNCHANGED << zipFile, searchPatterns, desiredContentTypes, desiredLanguages, pc,
                    fileContentMap, conversations, compiled, ret, call >>

EndIteration_FaultNotCounted(stage, baseFolder, name, used, faults, dirsAfter, filesAfter, counted) ==
    /\ idx' = idx + 1
    /\ log' = Append(log, [rec |-> idx, stage |-> stage, base |-> baseFolder, name |-> name])
    /\ usedFolderNames' = used
    /\ ioFaults' = ioFaults + faults
    /\ dirs' = dirsAfter
    /\ files' = filesAfter
    /\ matchedCount' = IF counted /\ faults = 0 THEN matchedCount + 1 ELSE matchedCount
    /\ printed' = IF counted /\ faults = 0
                  THEN Append(printed, PathJoin(absoluteOutputRoot, name) \o "/")
                  ELSE printed
    /\ UNCHANGED << zipFile, searchPatterns, desiredContentTypes, desiredLanguages, pc,
                    fileContentMap, conversations, compiled, ret, call >>

\* The end of one iteration of the loop: where it ended, what it left on
\* disk, and whether it reached lines 121 and 122.
EndIteration(stage, baseFolder, name, used, faults, dirsAfter, filesAfter, counted) ==
    /\ idx' = idx + 1
    /\ log' = Append(log, [rec |-> idx, stage |-> stage, base |-> baseFolder, name |-> name])
    /\ usedFolderNames' = used
    /\ ioFaults' = ioFaults + faults
    /\ dirs' = dirsAfter
    /\ files' = filesAfter
    /\ matchedCount' = IF counted THEN matchedCount + 1 ELSE matchedCount
    /\ printed' = IF counted
                  THEN Append(printed, PathJoin(absoluteOutputRoot, name) \o "/")
                  ELSE printed
    /\ UNCHANGED << zipFile, searchPatterns, desiredContentTypes, desiredLanguages, pc,
                    fileContentMap, conversations, compiled, ret, call >>

\* Run, lines 55 to 123: one iteration of the loop over conversations.
\* json.Marshal cannot fail on a decoded record, so lines 57 to 60 never run;
\* WritePrettyJSON decodes serialized to the record again and writes its
\* indented form.
ProcessRecord ==
    /\ pc = "loop"
    /\ idx <= Len(conversations)
    /\ LET record     == conversations[idx]
           serialized == CachedMarshal(record)
           stage      == CachedFilterStage(compiled, serialized, desiredContentTypes,
                                           desiredLanguages)
       IN  IF stage # "pass"
           THEN EndIteration(stage, "", "", usedFolderNames, 0, dirs, files, FALSE)
           ELSE \E now \in Clock :
                  LET baseFolder   == CachedBaseFolder(record, now)
                      assigned     == AssignFolder(usedFolderNames, baseFolder)
                      targetFolder == PathJoin(absoluteOutputRoot, assigned.name)
                      jsonPath     == PathJoin(targetFolder, "conversation.json")
                      linked       == CachedCollectLinkedFiles(serialized, fileContentMap)
                      filesFolder  == PathJoin(targetFolder, "files")
                      withFolder   == dirs \cup {targetFolder}
                      withJSON     == MapPut(files, jsonPath, CachedMarshalIndent(record))
                  IN  \E mkFails \in MayFail :
                        IF mkFails
                        THEN EndIteration("mkdir", baseFolder, assigned.name, assigned.used, 1,
                                          dirs, files, FALSE)
                        ELSE \E write \in (IF ioFaults < MaxIOFaults
                                           THEN {"ok", "failed", "truncated"} ELSE {"ok"}) :
                               IF write # "ok"
                               THEN EndIteration("write", baseFolder, assigned.name, assigned.used, 1,
                                                 withFolder,
                                                 IF write = "truncated" THEN MapPut(files, jsonPath, "")
                                                 ELSE files,
                                                 FALSE)
                               ELSE \E filesDirFails \in (IF DOMAIN linked # {} THEN MayFail ELSE {FALSE}) :
                                      IF filesDirFails
                                      THEN EndIteration("done", baseFolder, assigned.name,
                                                        assigned.used, 1, withFolder, withJSON, TRUE)
                                      ELSE \E order \in Perms(DOMAIN linked) :
                                           \E failing \in { F \in SUBSET DOMAIN linked :
                                                              Cardinality(F) <= MaxIOFaults - ioFaults } :
                                             EndIteration("done", baseFolder, assigned.name,
                                                          assigned.used, Cardinality(failing),
                                                          IF DOMAIN linked # {}
                                                          THEN withFolder \cup {filesFolder}
                                                          ELSE withFolder,
                                                          WriteLinked(withJSON, order, failing, linked,
                                                                      filesFolder),
                                                          TRUE)

\* Run, lines 125 to 128.
Finish ==
    /\ pc = "loop"
    /\ idx > Len(conversations)
    /\ pc' = "done"
    /\ ret' = IF matchedCount = 0
              THEN BuildNoMatchError(StringsJoinComma(searchPatterns), desiredContentTypes,
                                     desiredLanguages)
              ELSE "nil"
    /\ UNCHANGED << zipFile, searchPatterns, desiredContentTypes, desiredLanguages, fileContentMap,
                    conversations, compiled, idx, matchedCount, usedFolderNames, dirs, files,
                    printed, ioFaults, log, call >>

Next == Setup \/ ProcessRecord \/ Finish

Spec == Init /\ [][Next]_vars

(***************************************************************************)
(* The helpers of Run called on their own                                  *)
(*                                                                         *)
(* FindConversationsJSON, CollectLinkedFiles and NormalizeLanguageName are *)
(* exported functions; each specification below calls one of them on       *)
(* arguments that Run's archives do not all produce.  call holds the       *)
(* arguments and, once the function has returned, its result; the          *)
(* variables of Run stay at rest.                                          *)
(***************************************************************************)

AtRest ==
    /\ zipFile = [ok |-> FALSE, entries |-> << >>]
    /\ searchPatterns = << >>
    /\ desiredContentTypes = << >>
    /\ desiredLanguages = << >>
    /\ pc = "rest"
    /\ fileContentMap = NoFields
    /\ conversations = << >>
    /\ compiled = << >>
    /\ idx = 1
    /\ matchedCount = 0
    /\ usedFolderNames = NoFields
    /\ dirs = {}
    /\ files = NoFields
    /\ printed = << >>
    /\ ret = ""
    /\ ioFaults = 0
    /\ log = << >>

\* The most entries of an archive handed to FindConversationsJSON.
MaxArchiveKeys == 2

\* Archive paths: three that name the document, in different cases and
\* folders, and two that only resemble it.
DocumentPaths ==
    { "conversations.json", "Export/Conversations.json", "a/CONVERSATIONS.JSON",
      "conversations.json.bak", "myconversations.json" }

\* Contents of an entry: arrays of objects, JSON null, an array that holds
\* null, an array that holds a number, an object, and text that is not JSON.
DocumentContents ==
    { JSONBytes(JArr(<< RecA >>)), JSONBytes(JArr(<< RecC, RecA >>)), JSONBytes(JArr(<< >>)),
      JSONBytes(JNull), JSONBytes(JArr(<< JNull >>)), JSONBytes(JArr(<< JNum(1) >>)),
      JSONBytes(JObj(NoFields)), RawBytes("[{") }

\* The mappings LoadZipFileMap can hand over, with at most MaxArchiveKeys keys.
DocumentMaps ==
    UNION { [keys -> DocumentContents] :
              keys \in { K \in SUBSET DocumentPaths : Cardinality(K) <= MaxArchiveKeys } }

InitFind ==
    /\ AtRest
    /\ \E contentMap \in DocumentMaps :
         \E appended \in Perms(ConversationsKeys(contentMap)) :
            call = [fn |-> "FindConversationsJSON", contentMap |-> contentMap,
                    appended |-> appended, done |-> FALSE,
                    out |-> [err |-> "", records |-> << >>, key |-> ""]]

\* One call of FindConversationsJSON; the range over the map has visited the
\* candidates in the order call.appended.
CallFindConversationsJSON ==
    /\ call.fn = "FindConversationsJSON"
    /\ ~call.done
    /\ call' = [call EXCEPT !.done = TRUE,
                            !.out = FindConversationsJSON(call.contentMap, call.appended)]
    /\ UNCHANGED runVars

SpecFind == InitFind /\ [][CallFindConversationsJSON]_vars

\* Paths of archive entries, each as a folder part and a file name: files
\* and folders under files/ in several cases and depths, and files elsewhere
\* with the same names.
LinkedPaths ==
    { [dir |-> p[1], file |-> p[2]] :
        p \in { << "files/", "img1.png" >>, << "files/sub/", "img1.png" >>,
                << "Files/", "IMG2.PNG" >>, << "files/", "notes.txt" >>, << "files/", "" >>,
                << "files/sub/", "" >>, << "other/", "img1.png" >>, << "", "img1.png" >>,
                << "other/files/", "notes.txt" >> } }

PathKey(p) == p.dir \o p.file

\* The mappings handed to CollectLinkedFiles: any of the paths, each with
\* bytes of its own.
LinkedMaps ==
    { [key \in { PathKey(p) : p \in paths } |-> RawBytes("bytes of " \o key)] :
        paths \in SUBSET LinkedPaths }

\* Serialized records: those of the pool, and two that name attachments by
\* path and in another case.
LinkedTexts ==
    PoolTexts \cup { Marshal(JObj("title" :> JStr("see files/sub/img1.png and Notes.TXT"))),
                     Marshal(JObj("title" :> JStr("img2.png"))) }

InitLinked ==
    /\ AtRest
    /\ \E conversationJSON \in LinkedTexts, contentMap \in LinkedMaps :
         call = [fn |-> "CollectLinkedFiles", conversationJSON |-> conversationJSON,
                 contentMap |-> contentMap, done |-> FALSE, out |-> NoFields]

\* One call of CollectLinkedFiles.
CallCollectLinkedFiles ==
    /\ call.fn = "CollectLinkedFiles"
    /\ ~call.done
    /\ call' = [call EXCEPT !.done = TRUE,
                            !.out = CollectLinkedFiles(call.conversationJSON, call.contentMap)]
    /\ UNCHANGED runVars

SpecLinked == InitLinked /\ [][CallCollectLinkedFiles]_vars

\* How often NormalizeLanguageName is applied to its own result.
MaxApplications == 2

\* The capital of a small letter; any other character as it is.
UpperChar(c) ==
    IF c \in LowerSet THEN CharAt(UpperLetters, IndexOfChar(LowerLetters, c)) ELSE c

\* UpperChar applied to every character of s (the two halves in turn).
RECURSIVE MapUpper(_)
MapUpper(s) ==
    IF Len(s) <= 1 THEN UpperChar(s)
    ELSE MapUpper(SubSeq(s, 1, Len(s) \div 2)) \o MapUpper(SubSeq(s, Len(s) \div 2 + 1, Len(s)))

\* Language names in lower case without surrounding white space: the cases
\* of the switch, the tokens it returns, and names it does not list.
LanguageNames ==
    { "js", "node", "nodejs", "javascript", "golang", "sh", "bash", "zsh", "shell", "py",
      "python3", "ts", "typescript", "c++", "cpp", "c#",
      "go", "python", "csharp", "rust", "objective c", "jsx", "" }

\* A name as it is, in capitals, or with a capital first letter.
InCase(name, letterCase) ==
    IF letterCase = "upper" THEN MapUpper(name)
    ELSE IF letterCase = "title" /\ name # "" THEN UpperChar(Head(name)) \o Tail(name)
    ELSE name

InitNormalize ==
    /\ AtRest
    /\ \E base \in LanguageNames, letterCase \in {"lower", "upper", "title"},
          pad \in { << "", "" >>, << " ", "" >>, << "", "\t" >>, << " \n", "  " >> } :
         call = [fn |-> "NormalizeLanguageName", base |-> base,
                 name |-> pad[1] \o InCase(base, letterCase) \o pad[2], outs |-> << >>]

\* One call of NormalizeLanguageName: on call.name first, and then on what
\* the call before returned.
CallNormalizeLanguageName ==
    /\ call.fn = "NormalizeLanguageName"
    /\ Len(call.outs) < MaxApplications
    /\ LET arg == IF call.outs = << >> THEN call.name ELSE call.outs[Len(call.outs)]
       IN  call' = [call EXCEPT !.outs = Append(@, NormalizeLanguageName(arg))]
    /\ UNCHANGED runVars

SpecNormalize == InitNormalize /\ [][CallNormalizeLanguageName]_vars

\* What the i-th candidate key can hold, each with whether the key is
\* present, whether its value converts, and the Unix second it then stands
\* for: a number, a number with a fraction, an RFC 3339 date-time and a digit
\* string, which differ from key to key; zero, a negative number, a fraction
\* below one, null, two strings and an array; and no value at all.
TimeValues(i) ==
    { [present |-> TRUE, v |-> e[1], usable |-> e[2], sec |-> e[3]] :
        e \in { << JNum(1700000000 + 1000 * i), TRUE, 1700000000 + 1000 * i >>,
                << JFrac(1700000500 + 1000 * i, "75"), TRUE, 1700000500 + 1000 * i >>,
                << JStr("2023-11-14T22:13:5" \o ToString(i) \o "Z"), TRUE, 1700000030 + i >>,
                << JStr("170009" \o ToString(i) \o "000"), TRUE, 1700090000 + 1000 * i >>,
                << JNum(0), FALSE, 0 >>, << JNum(-5), FALSE, 0 >>, << JFrac(0, "5"), FALSE, 0 >>,
                << JNull, FALSE, 0 >>, << JStr("soon"), FALSE, 0 >>, << JStr("0"), FALSE, 0 >>,
                << JArr(<< JNum(1700000000) >>), FALSE, 0 >> } }
        \cup { [present |-> FALSE, v |-> JNull, usable |-> FALSE, sec |-> 0] }

\* The record holds, under each candidate key that is present, the value
\* given for it.
InitCreateTime ==
    /\ AtRest
    /\ \E g1 \in TimeValues(1), g2 \in TimeValues(2), g3 \in TimeValues(3), g4 \in TimeValues(4),
          now \in Clock :
         LET given == << g1, g2, g3, g4 >>
             keys  == { candidateKeys[i] : i \in { j \in 1..4 : given[j].present } }
         IN  call = [fn |-> "ExtractCreateTime", given |-> given,
                     record |-> JObj([key \in keys |->
                                        given[CHOOSE i \in 1..4 : candidateKeys[i] = key].v]),
                     now |-> now, done |-> FALSE, out |-> Unix(0)]

\* One call of ExtractCreateTime; time.Now() returns call.now if it is called.
CallExtractCreateTime ==
    /\ call.fn = "ExtractCreateTime"
    /\ ~call.done
    /\ call' = [call EXCEPT !.done = TRUE, !.out = ExtractCreateTime(call.record, call.now)]
    /\ UNCHANGED runVars

SpecCreateTime == InitCreateTime /\ [][CallExtractCreateTime]_vars

\* One pattern and one serialized record.  The patterns are words, words
\* with a capital, words with a dot or a star, and expressions with an
\* alternation, a flag group, an anchor, an escape or an unclosed group; the
\* texts are those of the pool and two that hold what the dot and the star
\* would stand for.
InitPattern ==
    /\ AtRest
    /\ \E user \in { "mapping", "Mapping", "IMG1.png", "a.c", "see*", "python\"}",
                     "title|mapping", "Title|mapping", "IMG1|Code", "(?i)MAPPING", "(?i)a.c",
                     "^{", "\\{\"title", "a(" },
          serialized \in PoolTexts \cup { Marshal(JObj("title" :> JStr("abc seen"))),
                                         Marshal(JObj("title" :> JStr("A.C See*"))) } :
         call = [fn |-> "CompileUserPattern", user |-> user, serialized |-> serialized,
                 done |-> FALSE, out |-> [re |-> RegexpCompile("a("), matched |-> FALSE]]

\* CompileUserPattern on the pattern as at line 45 of Run, and the test of
\* lines 61 to 69 with the one compiled pattern on the serialized record.
CallCompileUserPattern ==
    /\ call.fn = "CompileUserPattern"
    /\ ~call.done
    /\ LET re == CompileUserPattern(call.user)
       IN  call' = [call EXCEPT
                       !.done = TRUE,
                       !.out = [re |-> re,
                                matched |-> re.ok /\ AllPatternsMatch(<< re >>,
                                                        BytesToLower(call.serialized))]]
    /\ UNCHANGED runVars

SpecPattern == InitPattern /\ [][CallCompileUserPattern]_vars

\* A record with one candidate key that holds a string: digit strings of
\* ten to twenty digits, among them 2^32 + 1, 2^63 - 1, 2^63, 2^64, 2^64 + 1,
\* 2^65 + 1 and one with leading zeros, and strings with a letter, a sign or
\* a blank, the empty string and zero.
InitEpochString ==
    /\ AtRest
    /\ \E key \in { candidateKeys[i] : i \in 1..Len(candidateKeys) }, now \in Clock,
          text \in { "1700000100", "00000000001700000100", "4294967297", "9223372036854775807",
                     "9223372036854775808", "18446744073709551616", "18446744073709551617",
                     "36893488147419103233", "99999999999999999999", "0", "", "17000001a0",
                     "+1700000100", "-1700000100", " 1700000100", "1700000100 ", "1.7e9" } :
         call = [fn |-> "ExtractCreateTime", text |-> text, record |-> JObj(key :> JStr(text)),
                 now |-> now, done |-> FALSE, out |-> Unix(0)]

SpecEpochString == InitEpochString /\ [][CallExtractCreateTime]_vars

(***************************************************************************)
(* Properties of extract.Run                                               *)
(***************************************************************************)

\* The positions of the records that passed all filters: each reached line 84
\* and was given a folder name.
Assigned == { i \in 1..Len(log) : log[i].stage \in {"mkdir", "write", "done"} }

\* The serialized form of the i-th record of the run.
TextOf(i) == CachedMarshal(conversations[i])

\* C1: every record that passes all filters is given exactly one folder name,
\* and no two of them are given the same name.
C1_FolderNamesUnique ==
    /\ \A i \in 1..Len(log) : log[i].rec = i
    /\ \A i \in Assigned : log[i].name # ""
    /\ \A i, j \in Assigned : i # j => log[i].name # log[j].name

\* Three records were given names, two with one base token and one with another.
C1_Witness ==
    \E i, j, k \in Assigned :
        /\ i # j /\ log[i].base = log[j].base
        /\ log[k].base # log[i].base

\* How many of the records up to the i-th that passed all filters have the
\* base token of the i-th.
Occurrence(i) == Cardinality({ j \in Assigned : j <= i /\ log[j].base = log[i].base })

\* C2: of the records that pass all filters with base token T, the first is
\* named T and the k-th T_k, whatever records with other tokens lie between.
C2_SuffixFollowsOccurrence ==
    \A i \in Assigned :
        log[i].name = IF Occurrence(i) = 1 THEN log[i].base
                      ELSE log[i].base \o "_" \o ToString(Occurrence(i))

\* A third record with the base token of two earlier ones was named T_3.
C2_Witness ==
    \E i \in Assigned : Occurrence(i) = 3 /\ log[i].name = log[i].base \o "_3"

\* The compiled forms of the patterns of the model that compile.
Regexes == { CompileTable[user] : user \in { u \in PatternPool : CompileTable[u].ok } }

MatchTable == [re \in Regexes |-> [t \in PoolTexts |-> ReMatch(re, BytesToLower(t))]]

\* Whether the compiled pattern matches the lowercased serialized text.
Matches(re, serialized) ==
    IF re \in Regexes /\ serialized \in PoolTexts THEN MatchTable[re][serialized]
    ELSE ReMatch(re, BytesToLower(serialized))

AloneTable == [re \in Regexes |-> [t \in PoolTexts |-> AllPatternsMatch(<< re >>, BytesToLower(t))]]

\* Whether the text passes the pattern stage of a run whose only pattern is re.
PassesAlone(re, serialized) ==
    IF re \in Regexes /\ serialized \in PoolTexts THEN AloneTable[re][serialized]
    ELSE AllPatternsMatch(<< re >>, BytesToLower(serialized))

\* C3: a record passes the pattern stage exactly if every compiled pattern
\* matches its lowercased serialized form; so a record that passes with the
\* patterns of the run also passes with any one of them alone.
C3_PatternsAreConjoined ==
    \A i \in 1..Len(log) :
        /\ (log[i].stage # "pattern")
              <=> (\A p \in 1..Len(compiled) : Matches(compiled[p], TextOf(i)))
        /\ log[i].stage # "pattern"
              => \A p \in 1..Len(compiled) : PassesAlone(compiled[p], TextOf(i))

\* Under two patterns one record passed, and another that the first pattern
\* matches was excluded.
C3_Witness ==
    /\ Len(compiled) = 2
    /\ \E i, j \in 1..Len(log) :
          /\ log[i].stage = "pattern" /\ Matches(compiled[1], TextOf(i))
          /\ log[j].stage # "pattern"

ContentTypesTable == [t \in PoolTexts |-> EnumerateContentTypes(t)]

\* The content-type facet set of the i-th record.
DetectedContentTypes(i) ==
    IF TextOf(i) \in PoolTexts THEN ContentTypesTable[TextOf(i)] ELSE EnumerateContentTypes(TextOf(i))

LanguagesTable == [t \in PoolTexts |-> EnumerateLanguages(t)]

\* The language facet set of the i-th record.
DetectedLanguages(i) ==
    IF TextOf(i) \in PoolTexts THEN LanguagesTable[TextOf(i)] ELSE EnumerateLanguages(TextOf(i))

\* The i-th record reached, and passed, the content-type filter of line 75.
ReachedContentTypes(i) == log[i].stage # "pattern"

PassedContentTypes(i) == log[i].stage \notin {"pattern", "ctype"}

\* The i-th record passed the language filter of line 80.
PassedLanguages(i) == log[i].stage \notin {"pattern", "ctype", "lang"}

\* C4 as stated: with a non-empty desired list a record passes only if every
\* desired value, normalized as the detected values were (lowercased for
\* content types, NormalizeLanguageName for languages), is in its facet set.
C4_SameNormalizationAsDetected ==
    \A i \in 1..Len(log) :
        /\ (PassedContentTypes(i) /\ Len(desiredContentTypes) > 0)
              => \A d \in 1..Len(desiredContentTypes) :
                    ToLower(desiredContentTypes[d]) \in DetectedContentTypes(i)
        /\ (PassedLanguages(i) /\ Len(desiredLanguages) > 0)
              => \A d \in 1..Len(desiredLanguages) :
                    NormalizeLanguageName(desiredLanguages[d]) \in DetectedLanguages(i)

\* C4 as amended: with a non-empty desired list a record passes a facet filter
\* exactly if every desired value, after the normalizer Run gives that filter
\* (lowercasing and trimming for content types, NormalizeLanguageName for
\* languages), is in the record's facet set.
C4_EveryDesiredValueIsRequired ==
    \A i \in 1..Len(log) :
        /\ (ReachedContentTypes(i) /\ Len(desiredContentTypes) > 0)
              => (PassedContentTypes(i)
                    <=> \A d \in 1..Len(desiredContentTypes) :
                           ToLowerTrim(desiredContentTypes[d]) \in DetectedContentTypes(i))
        /\ (PassedContentTypes(i) /\ Len(desiredLanguages) > 0)
              => (PassedLanguages(i)
                    <=> \A d \in 1..Len(desiredLanguages) :
                           NormalizeLanguageName(desiredLanguages[d]) \in DetectedLanguages(i))

\* One record passed a filter of two desired content types, and another was
\* excluded by it although it holds one of the two.
C4_Witness ==
    /\ Len(desiredContentTypes) = 2
    /\ \E i, j \in 1..Len(log) :
          /\ log[i].stage = "ctype"
          /\ \E d \in 1..2 : ToLowerTrim(desiredContentTypes[d]) \in DetectedContentTypes(i)
          /\ PassedContentTypes(j)

\* C5: with no pattern, no desired content type and no desired language every
\* record passes and is given a folder name; and an empty desired list of one
\* facet excludes no record.
C5_EmptyFiltersExcludeNothing ==
    /\ (Len(searchPatterns) = 0 /\ Len(desiredContentTypes) = 0 /\ Len(desiredLanguages) = 0)
          => /\ \A i \in 1..Len(log) : i \in Assigned /\ log[i].name # ""
             /\ pc = "done" => Len(log) = Len(conversations)
    /\ Len(searchPatterns) = 0 => \A i \in 1..Len(log) : log[i].stage # "pattern"
    /\ Len(desiredContentTypes) = 0 => \A i \in 1..Len(log) : log[i].stage # "ctype"
    /\ Len(desiredLanguages) = 0 => \A i \in 1..Len(log) : log[i].stage # "lang"

\* A run without filters has returned after three records, one of them with
\* empty facet sets.
C5_Witness ==
    /\ Len(searchPatterns) = 0 /\ Len(desiredContentTypes) = 0 /\ Len(desiredLanguages) = 0
    /\ pc = "done" /\ Len(log) = 3
    /\ \E i \in 1..Len(log) : DetectedContentTypes(i) = {} /\ DetectedLanguages(i) = {}

\* Run has returned from line 126 or 128: setup succeeded and the loop ended.
ReturnedAfterLoop == pc = "done" /\ (ret = "nil" \/ HasPrefix(ret, "no conversations matched"))

\* C6: after a successful setup Run returns the no-match error exactly if no
\* record passed all filters, and nil as soon as one did.
C6_NoMatchErrorIffNoRecordPassed ==
    ReturnedAfterLoop => (ret = "nil" <=> Assigned # {})

\* C7: a failure in one iteration does not end the pass: the loop goes on to
\* the next record, every record is visited in stored order and meets the
\* filters as it would have, and Run decides its result only after the last.
C7_FailuresDoNotStopThePass ==
    /\ pc = "loop" => Len(log) = idx - 1 /\ ret = "running"
    /\ ReturnedAfterLoop => Len(log) = Len(conversations)
    /\ \A i \in 1..Len(log) :
          /\ log[i].rec = i
          /\ LET stage == CachedFilterStage(compiled, TextOf(i), desiredContentTypes,
                                            desiredLanguages)
             IN  IF stage = "pass" THEN i \in Assigned ELSE log[i].stage = stage

\* Run has returned; the folder or the JSON file of one record failed and a
\* later record was written and counted.
C7_Witness ==
    /\ ReturnedAfterLoop
    /\ \E i, j \in 1..Len(log) :
          i < j /\ log[i].stage \in {"mkdir", "write"} /\ log[j].stage = "done"

(***************************************************************************)
(* Properties of the helpers                                               *)
(***************************************************************************)

\* The path of the pool that the key of an archive entry spells.
PartsOf(key) == CHOOSE p \in LinkedPaths : PathKey(p) = key

\* The entry lies under files/ in any letter case and is not a folder.
UnderFiles(key) ==
    HasPrefix(ToLower(PartsOf(key).dir), "files/") /\ PartsOf(key).file # ""

\* The file name of the entry occurs in the text, letter case aside.
NamedIn(key, conversationJSON) ==
    Contains(ToLower(conversationJSON), ToLower(PartsOf(key).file))

\* C8: CollectLinkedFiles returns an entry, with its bytes, exactly if its
\* path starts with files/ in any letter case, does not end with a slash, and
\* its lowercased file name occurs in the lowercased text of the record; two
\* entries under files/ with one file name are both returned or both left
\* out, whatever their folders, and no entry outside files/ is returned.
C8_LinkedByBaseNameUnderFiles ==
    (call.fn = "CollectLinkedFiles" /\ call.done) =>
        /\ DOMAIN call.out \subseteq DOMAIN call.contentMap
        /\ \A key \in DOMAIN call.out : call.out[key] = call.contentMap[key]
        /\ \A key \in DOMAIN call.contentMap :
              key \in DOMAIN call.out
                  <=> (UnderFiles(key) /\ NamedIn(key, call.conversationJSON))
        /\ \A k1, k2 \in DOMAIN call.contentMap :
              (/\ UnderFiles(k1) /\ UnderFiles(k2)
               /\ ToLower(PartsOf(k1).file) = ToLower(PartsOf(k2).file))
                  => (k1 \in DOMAIN call.out <=> k2 \in DOMAIN call.out)
        /\ \A key \in DOMAIN call.contentMap :
              ~HasPrefix(ToLower(key), "files/") => key \notin DOMAIN call.out

\* The text names img1.png without a folder: both entries of that name under
\* files/ were returned, the one under other/ and files/notes.txt were not.
C8_Witness ==
    /\ call.fn = "CollectLinkedFiles" /\ call.done
    /\ ~Contains(ToLower(call.conversationJSON), "files/")
    /\ {"files/img1.png", "files/sub/img1.png"} \subseteq DOMAIN call.out
    /\ {"other/img1.png", "files/notes.txt", "files/sub/"} \subseteq
           (DOMAIN call.contentMap) \ (DOMAIN call.out)

\* The keys that name the document, letter case aside.
NamesDocument(key) ==
    \/ ToLower(key) = "conversations.json"
    \/ (Len(key) >= 19 /\ ToLower(SubSeq(key, Len(key) - 18, Len(key))) = "/conversations.json")

\* The bytes are a JSON array whose elements are all objects.
IsArrayOfObjects(content) ==
    /\ content.valid
    /\ content.doc.t = "arr"
    /\ \A i \in 1..Len(content.doc.a) : content.doc.a[i].t = "obj"

\* C9: FindConversationsJSON parses the smallest, in lexicographic order, of
\* the keys that name the document, in whatever order the mapping was
\* visited; without such a key it returns the not-found error; and when the
\* bytes of the chosen key are not a JSON array of objects it returns a parse
\* error, whatever the other candidates hold.
C9_SmallestCandidateOrError ==
    (call.fn = "FindConversationsJSON" /\ call.done) =>
        LET candidates == { key \in DOMAIN call.contentMap : NamesDocument(key) }
        IN  IF candidates = {}
            THEN call.out.err = "conversations.json not found in archive"
            ELSE LET chosen == CHOOSE key \in candidates :
                                  \A other \in candidates \ {key} : StrLess(key, other)
                 IN  /\ call.out.key = chosen
                     /\ IF IsArrayOfObjects(call.contentMap[chosen])
                        THEN /\ call.out.err = ""
                             /\ call.out.records = call.contentMap[chosen].doc.a
                        ELSE HasPrefix(call.out.err, "parse conversations.json: ")

\* The token the specification lists for a name in lower case without
\* surrounding white space: that of its alias group, or the name itself.
CanonicalToken(base) ==
    IF base \in {"js", "node", "nodejs", "javascript"} THEN "javascript"
    ELSE IF base \in {"golang"} THEN "go"
    ELSE IF base \in {"sh", "bash", "zsh", "shell"} THEN "shell"
    ELSE IF base \in {"py", "python3"} THEN "python"
    ELSE IF base \in {"ts", "typescript"} THEN "typescript"
    ELSE IF base \in {"c++", "cpp"} THEN "cpp"
    ELSE IF base \in {"c#"} THEN "csharp"
    ELSE base

\* C10: NormalizeLanguageName maps a name, in any letter case and with white
\* space around it, to the canonical token of its alias group, or to its
\* lowercased trimmed form when no group lists it; applied to its own result
\* it returns that result.
C10_CanonicalAndIdempotent ==
    call.fn = "NormalizeLanguageName" =>
        /\ Len(call.outs) >= 1 => call.outs[1] = CanonicalToken(call.base)
        /\ \A k \in 2..Len(call.outs) : call.outs[k] = call.outs[k - 1]

\* "C++" in capitals between white space became cpp, and cpp stayed cpp.
C10_Witness ==
    /\ call.fn = "NormalizeLanguageName"
    /\ call.base = "c++" /\ call.name = " \nC++  "
    /\ call.outs = << "cpp", "cpp" >>

ArchiveUnreadable == ~zipFile.ok

\* The entries of the archive whose names name the document.
DocumentEntries ==
    { i \in 1..Len(zipFile.entries) : NamesDocument(zipFile.entries[i].name) }

\* The archive is read and holds no entry that names the document.
DocumentMissing == zipFile.ok /\ DocumentEntries = {}

\* The archive is read and the entry of the smallest such name does not
\* parse: its text is not JSON, or is JSON that is neither a list nor null,
\* or a list with an element that is neither an object nor null.  (What
\* becomes of a null document is the matter of C9.)
DocumentUnparseable ==
    /\ zipFile.ok
    /\ \E i \in DocumentEntries :
          /\ \A j \in DocumentEntries \ {i} :
                StrLess(zipFile.entries[i].name, zipFile.entries[j].name)
          /\ LET content == zipFile.entries[i].content
             IN  \/ ~content.valid
                 \/ content.doc.t \notin {"arr", "null"}
                 \/ \E k \in 1..Len(content.doc.a) : content.doc.a[k].t \notin {"obj", "null"}

\* The positions of the patterns that regexp.Compile rejects; of the
\* patterns of the model that is a( with its unclosed group.
RejectedPatterns == { i \in 1..Len(searchPatterns) : searchPatterns[i] = "a(" }

\* The output root could not be created: Run returned at line 30.
RootNotCreated == pc = "done" /\ absoluteOutputRoot \notin dirs

\* C12: when the archive cannot be loaded, the document is missing or does
\* not parse, or a pattern does not compile, Run returns the error of that
\* failure, for a pattern with the text of the first pattern that does not
\* compile, and at that point no record has been examined, no name has been
\* assigned, and nothing but the output root has been created or written.
C12_SetupFailureAbortsBeforeRecords ==
    (/\ pc = "done"
     /\ ~RootNotCreated
     /\ (ArchiveUnreadable \/ DocumentMissing \/ DocumentUnparseable \/ RejectedPatterns # {}))
        => /\ log = << >> /\ printed = << >> /\ matchedCount = 0
           /\ usedFolderNames = NoFields /\ conversations = << >>
           /\ files = NoFields /\ dirs = {absoluteOutputRoot}
           /\ IF ArchiveUnreadable THEN ret = "open zip"
              ELSE IF DocumentMissing THEN ret = "conversations.json not found in archive"
              ELSE IF DocumentUnparseable THEN HasPrefix(ret, "parse conversations.json: ")
              ELSE \E i \in RejectedPatterns :
                      /\ \A j \in RejectedPatterns : i <= j
                      /\ ret = "invalid pattern \"" \o searchPatterns[i] \o "\""

\* Run returned the error that names a( where the archive holds two or more
\* records and the pattern before a( compiles.
C12_Witness ==
    /\ pc = "done"
    /\ ret = "invalid pattern \"a(\""
    /\ searchPatterns[1] # "a("
    /\ Len(zipFile.entries[1].content.doc.a) >= 2
    /\ log = << >>

(***************************************************************************)
(* Properties of the patterns                                              *)
(***************************************************************************)

\* The pattern holds a character that is special in a regular expression
\* (those regexp.QuoteMeta escapes), a lookaround, or starts with a flag group.
ReadsAsRegex(user) ==
    \/ \E i \in 1..Len(user) : CharAt(user, i) \in CharsOf("\\.+*?()|[]{}^$")
    \/ Contains(user, "?=") \/ Contains(user, "?<=") \/ Contains(user, "?!")
    \/ HasPrefix(user, "(?")

\* C13: a pattern with a regex metacharacter, a lookaround or a leading flag
\* group is compiled as it is written; every other pattern compiles, and
\* matches a record exactly if it occurs in the record's serialized form,
\* ASCII letter case aside.
C13_RegexIfMetacharElseLiteral ==
    (call.fn = "CompileUserPattern" /\ call.done) =>
        IF ReadsAsRegex(call.user)
        THEN call.out.re = RegexpCompile(call.user)
        ELSE /\ call.out.re.ok
             /\ call.out.matched <=> Contains(ToLower(call.serialized), ToLower(call.user))

\* The pattern was compiled as a regular expression as it is written.
CompiledRaw == call.out.re.ok /\ call.out.re = RegexpCompile(call.user)

\* C14 as stated: a pattern compiled as a raw regular expression that holds
\* a capital letter matches no record.
C14_RawPatternWithCapitalNeverMatches ==
    (/\ call.fn = "CompileUserPattern" /\ call.done
     /\ CompiledRaw
     /\ \E i \in 1..Len(call.user) : CharAt(call.user, i) \in UpperSet)
        => ~call.out.matched

\* C14: a pattern compiled as a raw regular expression without the flag
\* that ignores case, every alternative of which must match a capital ASCII
\* letter as it is written, matches no record.
C14_RawPatternThatNeedsCapitalNeverMatches ==
    (/\ call.fn = "CompileUserPattern" /\ call.done
     /\ CompiledRaw
     /\ ~call.out.re.fold
     /\ \A i \in 1..Len(call.out.re.alts) :
           \E k \in 1..Len(call.out.re.alts[i]) :
              call.out.re.alts[i][k].k = "lit" /\ call.out.re.alts[i][k].c \in UpperSet)
        => ~call.out.matched

\* IMG1|Code was tested on a record that holds both IMG1 and Code as they are
\* written, and did not match.
C14_Witness ==
    /\ call.fn = "CompileUserPattern" /\ call.done
    /\ call.user = "IMG1|Code"
    /\ Contains(call.serialized, "IMG1") /\ Contains(call.serialized, "Code")
    /\ CompiledRaw
    /\ ~call.out.matched

(***************************************************************************)
(* Properties of what Run writes                                           *)
(***************************************************************************)

\* The folder of the i-th record of the run.
FolderOf(i) == PathJoin(absoluteOutputRoot, log[i].name)

\* The attachments that resolve for the i-th record.
LinkedOf(i) == CachedCollectLinkedFiles(TextOf(i), fileContentMap)

\* C15: in a run without I/O failure, for every record whose folder and
\* conversation.json were written, the subfolder files exists exactly if an
\* attachment resolved, and for every attachment that resolved the file
\* files/<base name> holds the bytes of that attachment; what is written is
\* therefore fixed by the archive and the filters, also when two attachments
\* in different folders under files/ have one base name.
C15_AttachmentsWrittenAsArchived ==
    ioFaults = 0 =>
        \A i \in 1..Len(log) :
            log[i].stage = "done" =>
                /\ PathJoin(FolderOf(i), "files") \in dirs <=> DOMAIN LinkedOf(i) # {}
                /\ \A archivePath \in DOMAIN LinkedOf(i) :
                      LET targetPath == PathJoin(PathJoin(FolderOf(i), "files"), Base(archivePath))
                      IN  /\ targetPath \in DOMAIN files
                          /\ files[targetPath] = LinkedOf(i)[archivePath].raw

\* The i-th record passed all filters, its folder was created and its
\* conversation.json holds the indented form of the record.
FolderAndJSONWritten(i) ==
    /\ i \in Assigned
    /\ FolderOf(i) \in dirs
    /\ PathJoin(FolderOf(i), "conversation.json") \in DOMAIN files
    /\ files[PathJoin(FolderOf(i), "conversation.json")] = CachedMarshalIndent(conversations[i])

\* The records whose folder path was printed.
Printed == { i \in 1..Len(log) : \E k \in 1..Len(printed) : printed[k] = FolderOf(i) \o "/" }

\* C17: a record is counted and its folder path printed exactly if it passed
\* all filters and its folder and its conversation.json were written, whether
\* or not its files subfolder and its attachments were; and the counter of a
\* base token stands at the number of records that passed all filters with
\* that token, whichever of their writes failed.
C17_CountedIffFolderAndJSONWritten ==
    /\ \A i \in 1..Len(log) : i \in Printed <=> FolderAndJSONWritten(i)
    /\ matchedCount = Cardinality(Printed)
    /\ Len(printed) = matchedCount
    /\ \A i \in Assigned :
          UsedCount(usedFolderNames, log[i].base)
              = Cardinality({ j \in Assigned : log[j].base = log[i].base })
    /\ DOMAIN usedFolderNames = { log[i].base : i \in Assigned }

\* A record with attachments was counted and printed although its files
\* subfolder could not be created or one of its attachments was not written.
C17_Witness ==
    \E i \in Printed :
        /\ matchedCount >= 1
        /\ DOMAIN LinkedOf(i) # {}
        /\ \/ PathJoin(FolderOf(i), "files") \notin dirs
           \/ \E archivePath \in DOMAIN LinkedOf(i) :
                 PathJoin(PathJoin(FolderOf(i), "files"), Base(archivePath)) \notin DOMAIN files


(***************************************************************************)
(* Properties of the epoch strings                                         *)
(***************************************************************************)

\* The decimal value of a digit string in limbs of 16 bits, least
\* significant first, as many as the value needs.
RECURSIVE DecimalValue(_)
DecimalValue(digits) ==
    IF digits = "" THEN << >>
    ELSE LET high == DecimalValue(SubSeq(digits, 1, Len(digits) - 1))
             d    == IndexOfChar("0123456789", CharAt(digits, Len(digits))) - 1
             carry[i \in 0..Len(high)] ==
                 IF i = 0 THEN d ELSE (high[i] * 10 + carry[i - 1]) \div 65536
             limbs == [i \in 1..Len(high) |-> (high[i] * 10 + carry[i - 1]) % 65536]
         IN  IF carry[Len(high)] = 0 THEN limbs ELSE Append(limbs, carry[Len(high)])

\* The limbs without the zero limbs at the top.
RECURSIVE Trimmed(_)
Trimmed(limbs) ==
    IF limbs # << >> /\ limbs[Len(limbs)] = 0 THEN Trimmed(SubSeq(limbs, 1, Len(limbs) - 1))
    ELSE limbs

\* The Unix second of the instant ExtractCreateTime returned, in limbs.
SecondOf(t) ==
    Trimmed(IF t.far = I64Zero THEN << t.sec % 65536, t.sec \div 65536 >> ELSE t.far)

\* C16: ExtractCreateTime takes the instant from a string that is not an
\* RFC 3339 date-time only if the string is not empty and holds nothing but
\* ASCII digits, and the instant is then the epoch second that the string
\* spells in decimal, however long the string is.
C16_DigitStringIsItsDecimalValue ==
    (call.fn = "ExtractCreateTime" /\ call.done /\ call.out # call.now) =>
        /\ call.text # ""
        /\ \A i \in 1..Len(call.text) : CharAt(call.text, i) \in CharsOf("0123456789")
        /\ SecondOf(call.out) = Trimmed(DecimalValue(call.text))

=============================================================================
